---- MODULE Spec2Model ----
(***************************************************************************)
(* QR attendance portal (src/qr_attendance/app.py): the QR token lifecycle *)
(* (admin_generate_qr), the attendance recording engine (student_scan),    *)
(* the login and the administration of the students, run by concurrent     *)
(* request threads over one SQLite database.                               *)
(*                                                                         *)
(* Store semantics (app.py:27, sqlite): every SQL statement is atomic; a   *)
(* connection opens its transaction at its first INSERT/UPDATE/DELETE and  *)
(* then holds the database write lock until COMMIT, so write transactions  *)
(* are serialised; SELECTs of other connections read the committed state.  *)
(* A writer that finds the lock taken waits for it.                        *)
(***************************************************************************)
EXTENDS Integers, Sequences, FiniteSets, TLC

\* ---------------------------------------------------------------- bounds
NumThreads == 2      \* concurrent request threads of the server
MaxTokens == 2       \* QRSession rows ever issued
MaxAtt == 2          \* Attendance rows ever inserted
MaxNow == 31         \* last clock instant of the model, in seconds
NumBrowsers == 2     \* browser sessions (cookies) that send requests

\* ------------------------------------------------------- program constants
Window == 30         \* timedelta(seconds=30)

Threads == 1..NumThreads

Browsers == 1..NumBrowsers

\* the instants at which the clock is observed: the start, the end of the
\* validity window that begins at the start, and the last instant
Instants == {0, Window, MaxNow}

\* ClassSession rows (no route edits or deletes a class session)
ClassSessions ==
    [c \in {1, 2} |-> IF c = 1 THEN [course |-> "c1", batch |-> "b1"]
                               ELSE [course |-> "c1", batch |-> "b2"]]

ClassIds == DOMAIN ClassSessions

\* the <int:cid> values of /admin/generate_qr/<cid>: the rows and a missing id
CidParams == ClassIds \cup {3}

\* Student rows present at start
InitStudents ==
    { [id |-> 1, roll_number |-> "r1", batch |-> "b1", course |-> "c1"],
      [id |-> 2, roll_number |-> "r2", batch |-> "b1", course |-> "c2"] }

\* generate_password_hash(pw): the method and the password it was made from
generate_password_hash(pw) == <<"hash", pw>>

\* check_password_hash(h, pw)
check_password_hash(h, pw) == h = generate_password_hash(pw)

\* Admin rows: the one of create_default_admin (no route edits the admins)
Admins ==
    { [id |-> 1, username |-> "admin",
       password_hash |-> generate_password_hash("admin123")] }

\* Teacher rows present at start
Teachers ==
    { [id |-> 1, username |-> "teach",
       password_hash |-> generate_password_hash("teach123")] }

\* the fields of the login form; "" is one that is absent or empty
LoginTypes == {"admin", "teacher", ""}
Usernames == {"admin", "teach"}
Passwords == {"admin123", "teach123"}

\* the fields of the student forms
FormRolls == {"r1", "r9"}
FormBatches == {"b1"}
FormCourses == {"c1", "c2"}

\* values of secrets.token_urlsafe(16)
Secrets == {"s1", "s2"}

\* request parameters and form fields; "" is one that is absent or empty
\* sid values: absent, the ids of the rows there can be, and a missing id
SidParams == {""} \cup {ToString(i) : i \in 1..(MaxTokens + 1)}
TokenParams == {""} \cup Secrets
RollParams == {"", "r1", "r2", "r9"}

\* the <int:sid> values of the student routes: the ids of the rows there can
\* be, which have roll numbers of their own, and a missing id
StudentIdParams == 1..(Cardinality(RollParams \ {""}) + 1)
Roles == {"admin", "teacher", "none"}

\* responses of the handlers
R_None == "none"
R_Login == "redirect login"
R_404 == "404"
R_QR == "admin_qr.html"
R_BadParams == "Invalid QR parameters"
R_Invalid == "Invalid or inactive QR session"
R_Expired == "QR expired"
R_NoRoll == "Please enter roll number"
R_BadRoll == "Invalid roll number for this session"
R_Already == "Attendance already marked for this session"
R_Success == "student_success.html"
R_Form == "student_scan.html"
R_Dashboard == "redirect dashboard"
R_LoginPage == "login.html"
R_AddForm == "admin_add_student.html"
R_RollExists == "This roll number already exists!"
R_Added == "Student added successfully!"
R_EditForm == "edit_student.html"
R_RollTaken == "Another student with same roll number exists!"
R_Updated == "Student updated successfully!"
R_Deleted == "Student deleted successfully!"
R_500 == "500"

VARIABLES
    now,         \* datetime.utcnow()
    qrs,         \* QRSession table: row id -> row
    attendance,  \* Attendance table: set of rows
    students,    \* Student table: set of rows
    dbLock,      \* thread holding the database write lock, 0 if none
    pc,          \* per thread: position in its handler
    method,      \* per thread: request.method of the scan request
    qs,          \* per thread: id of the QRSession row loaded by student_scan
    roll,        \* per thread: request.form["roll"] of the scan request
    student,     \* per thread: id of the Student row found by student_scan
    cid,         \* per thread: class session of the generate_qr request
    upd,         \* per thread: rows matched by the deactivating UPDATE
    form,        \* per thread: batch and course of the student form
    studentRow,  \* per thread: the Student row as get_or_404 loaded it
    session,     \* per browser: the role and user_id of its session cookie
    out          \* the request answered by the step just taken, as far as the
                 \* handler had read it, and its response

vars ==
    <<now, qrs, attendance, students, dbLock, pc, method, qs, roll, student, cid, upd,
      form, studentRow, session, out>>

db == <<qrs, attendance, students>>
locals == <<method, qs, roll, student, cid, upd, form, studentRow>>

\* no student form was read, no Student row was loaded
NoForm == [batch |-> "", course |-> ""]
NoRow == [id |-> 0, roll_number |-> "", batch |-> "", course |-> ""]

\* session.clear(): session.get("role") is None
NoSession == [role |-> "none", user_id |-> 0]

\* no request was answered by the step
NoOut ==
    [resp |-> R_None, method |-> "", sid |-> "", token |-> "", roll |-> "",
     student |-> 0, role |-> "", cid |-> 0, username |-> "", password |-> "",
     browser |-> 0]

Init ==
    /\ now = 0
    /\ qrs = <<>>
    /\ attendance = {}
    /\ students = InitStudents
    /\ dbLock = 0
    /\ pc = [t \in Threads |-> "idle"]
    /\ method = [t \in Threads |-> "GET"]
    /\ qs = [t \in Threads |-> 0]
    /\ roll = [t \in Threads |-> ""]
    /\ student = [t \in Threads |-> 0]
    /\ cid = [t \in Threads |-> 0]
    /\ upd = [t \in Threads |-> {}]
    /\ form = [t \in Threads |-> NoForm]
    /\ studentRow = [t \in Threads |-> NoRow]
    /\ session = [b \in Browsers |-> NoSession]
    /\ out = NoOut

\* ---------------------------------------------------------------- helpers

\* login_required(role): session.get("role") == role
login_required(sessionRole, role) == sessionRole = role

\* ActiveOf, were the class session filter left out
ActiveOf_AnyClass(c) == {i \in DOMAIN qrs : qrs[i].active}

\* rows of QRSession.query.filter_by(class_session_id=c, active=True)
ActiveOf(c) == {i \in DOMAIN qrs : qrs[i].class_session_id = c /\ qrs[i].active}

\* QRSession.query.get(sid): the row id, 0 for None
GetQRSession(sid) ==
    IF \E i \in DOMAIN qrs : ToString(i) = sid
    THEN CHOOSE i \in DOMAIN qrs : ToString(i) = sid
    ELSE 0

\* FindStudents, were the course filter left out
FindStudents_NoCourse(r, cs) ==
    {s \in students : s.roll_number = r /\ s.batch = cs.batch}

\* Student.query.filter_by(roll_number=r, batch=cs.batch, course=cs.course)
FindStudents(r, cs) ==
    {s \in students : /\ s.roll_number = r
                      /\ s.batch = cs.batch
                      /\ s.course = cs.course}

\* Attendance.query.filter_by(student_id=s, class_session_id=c)
FindAttendance(s, c) ==
    {a \in attendance : a.student_id = s /\ a.class_session_id = c}

\* next INTEGER PRIMARY KEY of the Attendance table
NextAttendanceId ==
    IF attendance = {} THEN 1
    ELSE 1 + CHOOSE m \in {a.id : a \in attendance} :
                 \A a \in attendance : a.id <= m

\* the scan request of thread t past the token checks, as it was received
ScanOf(t) ==
    [NoOut EXCEPT !.method = method[t], !.sid = ToString(qs[t]),
                  !.token = qrs[qs[t]].token, !.roll = roll[t],
                  !.student = student[t]]

\* the request ends: the response is sent and the request's locals are dropped
Finish(t, o) ==
    /\ out' = o
    /\ pc' = [pc EXCEPT ![t] = "idle"]
    /\ method' = [method EXCEPT ![t] = "GET"]
    /\ qs' = [qs EXCEPT ![t] = 0]
    /\ roll' = [roll EXCEPT ![t] = ""]
    /\ student' = [student EXCEPT ![t] = 0]
    /\ cid' = [cid EXCEPT ![t] = 0]
    /\ upd' = [upd EXCEPT ![t] = {}]
    /\ form' = [form EXCEPT ![t] = NoForm]
    /\ studentRow' = [studentRow EXCEPT ![t] = NoRow]
    /\ UNCHANGED session

\* the request goes on to label l
Goto(t, l) ==
    /\ out' = NoOut
    /\ pc' = [pc EXCEPT ![t] = l]
    /\ UNCHANGED session

InFlight(labels) == Cardinality({t \in Threads : pc[t] \in labels})

\* ------------------------------------------------------ admin_generate_qr

\* lines 331-334: the login gate and ClassSession.query.get_or_404(cid)
GenStart(t, role, c) ==
    /\ pc[t] = "idle"
    /\ UNCHANGED <<now, db, dbLock>>
    /\ IF ~login_required(role, "admin")
       THEN Finish(t, [NoOut EXCEPT !.role = role, !.resp = R_Login])
       ELSE IF c \notin ClassIds
       THEN Finish(t, [NoOut EXCEPT !.role = role, !.cid = c, !.resp = R_404])
       ELSE /\ Goto(t, "gen_update")
            /\ cid' = [cid EXCEPT ![t] = c]
            /\ UNCHANGED <<method, qs, roll, student, upd, form, studentRow>>

\* GenUpdate, were the UPDATE not to wait for the write lock
GenUpdate_NoLock(t) ==
    /\ pc[t] = "gen_update"
    /\ dbLock' = dbLock
    /\ upd' = [upd EXCEPT ![t] = ActiveOf(cid[t])]
    /\ Goto(t, "gen_commit")
    /\ UNCHANGED <<now, db, method, qs, roll, student, cid, form, studentRow>>

\* GenUpdate, were the UPDATE to match the active rows of every class session
GenUpdate_AllRows(t) ==
    /\ pc[t] = "gen_update"
    /\ dbLock = 0
    /\ dbLock' = t
    /\ upd' = [upd EXCEPT ![t] = {i \in DOMAIN qrs : qrs[i].active}]
    /\ Goto(t, "gen_commit")
    /\ UNCHANGED <<now, db, method, qs, roll, student, cid, form, studentRow>>

\* line 337: the UPDATE that deactivates the active rows of the class session;
\* it opens the write transaction, which waits for the write lock
GenUpdate(t) ==
    /\ pc[t] = "gen_update"
    /\ dbLock = 0
    /\ dbLock' = t
    /\ upd' = [upd EXCEPT ![t] = ActiveOf(cid[t])]
    /\ Goto(t, "gen_commit")
    /\ UNCHANGED <<now, db, method, qs, roll, student, cid, form, studentRow>>

\* GenCommit, were the new row to expire at once
GenCommit_NoWindow(t, secret) ==
    /\ pc[t] = "gen_commit"
    /\ qrs' = Append([i \in DOMAIN qrs |->
                        IF i \in upd[t] THEN [qrs[i] EXCEPT !.active = FALSE]
                                        ELSE qrs[i]],
                     [class_session_id |-> cid[t],
                      token |-> secret,
                      created_at |-> now,
                      expires_at |-> now,
                      active |-> TRUE])
    /\ dbLock' = 0
    /\ Finish(t, [NoOut EXCEPT !.role = "admin", !.cid = cid[t], !.resp = R_QR])
    /\ UNCHANGED <<now, attendance, students>>

\* GenCommit, were the issue to bring back the rows of the class session that
\* are inactive as well
GenCommit_Revive(t, secret) ==
    /\ pc[t] = "gen_commit"
    /\ qrs' = Append([i \in DOMAIN qrs |->
                        IF qrs[i].class_session_id = cid[t]
                        THEN [qrs[i] EXCEPT !.active = ~qrs[i].active,
                                            !.expires_at = now + Window]
                        ELSE qrs[i]],
                     [class_session_id |-> cid[t],
                      token |-> secret,
                      created_at |-> now,
                      expires_at |-> now + Window,
                      active |-> TRUE])
    /\ dbLock' = 0
    /\ Finish(t, [NoOut EXCEPT !.role = "admin", !.cid = cid[t], !.resp = R_QR])
    /\ UNCHANGED <<now, attendance, students>>

\* GenCommit, were the issue to clear the Attendance rows of the class session
GenCommit_Purge(t, secret) ==
    /\ pc[t] = "gen_commit"
    /\ qrs' = Append([i \in DOMAIN qrs |->
                        IF i \in upd[t] THEN [qrs[i] EXCEPT !.active = FALSE]
                                        ELSE qrs[i]],
                     [class_session_id |-> cid[t],
                      token |-> secret,
                      created_at |-> now,
                      expires_at |-> now + Window,
                      active |-> TRUE])
    /\ attendance' = {a \in attendance : a.class_session_id # cid[t]}
    /\ dbLock' = 0
    /\ Finish(t, [NoOut EXCEPT !.role = "admin", !.cid = cid[t], !.resp = R_QR])
    /\ UNCHANGED <<now, students>>

\* lines 339-351: the new row, INSERT and COMMIT
GenCommit(t, secret) ==
    /\ pc[t] = "gen_commit"
    /\ qrs' = Append([i \in DOMAIN qrs |->
                        IF i \in upd[t] THEN [qrs[i] EXCEPT !.active = FALSE]
                                        ELSE qrs[i]],
                     [class_session_id |-> cid[t],
                      token |-> secret,
                      created_at |-> now,
                      expires_at |-> now + Window,
                      active |-> TRUE])
    /\ dbLock' = 0
    /\ Finish(t, [NoOut EXCEPT !.role = "admin", !.cid = cid[t], !.resp = R_QR])
    /\ UNCHANGED <<now, attendance, students>>

\* ------------------------------------------------------------ student_scan

\* ScanGetQs, were the active flag not looked at
ScanGetQs_NoActive(t, m, sid, token, r) ==
    /\ pc[t] = "idle"
    /\ UNCHANGED <<now, db, dbLock>>
    /\ LET o == [NoOut EXCEPT !.method = m, !.sid = sid, !.token = token]
           q == GetQRSession(sid)
       IN
       IF sid = "" \/ token = "" THEN Finish(t, [o EXCEPT !.resp = R_BadParams])
       ELSE IF q = 0 \/ qrs[q].token # token
       THEN Finish(t, [o EXCEPT !.resp = R_Invalid])
       ELSE /\ Goto(t, "scan_expiry")
            /\ qs' = [qs EXCEPT ![t] = q]
            /\ method' = [method EXCEPT ![t] = m]
            /\ roll' = [roll EXCEPT ![t] = r]
            /\ UNCHANGED <<student, cid, upd, form, studentRow>>

\* lines 450-458: the parameters, QRSession.query.get(sid), token and active
ScanGetQs(t, m, sid, token, r) ==
    /\ pc[t] = "idle"
    /\ UNCHANGED <<now, db, dbLock>>
    /\ LET o == [NoOut EXCEPT !.method = m, !.sid = sid, !.token = token]
           q == GetQRSession(sid)
       IN
       IF sid = "" \/ token = "" THEN Finish(t, [o EXCEPT !.resp = R_BadParams])
       ELSE IF q = 0 \/ qrs[q].token # token \/ ~qrs[q].active
       THEN Finish(t, [o EXCEPT !.resp = R_Invalid])
       ELSE /\ Goto(t, "scan_expiry")
            /\ qs' = [qs EXCEPT ![t] = q]
            /\ method' = [method EXCEPT ![t] = m]
            /\ roll' = [roll EXCEPT ![t] = r]
            /\ UNCHANGED <<student, cid, upd, form, studentRow>>

\* ScanExpiry, were the test now >= expires_at
ScanExpiry_Strict(t) ==
    /\ pc[t] = "scan_expiry"
    /\ UNCHANGED <<now, db, dbLock>>
    /\ IF now >= qrs[qs[t]].expires_at
       THEN Finish(t, [ScanOf(t) EXCEPT !.resp = R_Expired])
       ELSE IF method[t] = "POST"
       THEN Goto(t, "scan_student") /\ UNCHANGED locals
       ELSE Finish(t, [ScanOf(t) EXCEPT !.resp = R_Form])

\* ScanExpiry, were the rendering of the scan form to use the token up
ScanExpiry_Consume(t) ==
    /\ pc[t] = "scan_expiry"
    /\ UNCHANGED <<now, attendance, students, dbLock>>
    /\ IF now > qrs[qs[t]].expires_at
       THEN Finish(t, [ScanOf(t) EXCEPT !.resp = R_Expired]) /\ UNCHANGED qrs
       ELSE IF method[t] = "POST"
       THEN Goto(t, "scan_student") /\ UNCHANGED <<locals, qrs>>
       ELSE /\ Finish(t, [ScanOf(t) EXCEPT !.resp = R_Form])
            /\ qrs' = [qrs EXCEPT ![qs[t]].active = FALSE]

\* ScanExpiry, were an expired row to be deactivated when it is refused
ScanExpiry_Retire(t) ==
    /\ pc[t] = "scan_expiry"
    /\ UNCHANGED <<now, attendance, students, dbLock>>
    /\ IF now > qrs[qs[t]].expires_at
       THEN /\ Finish(t, [ScanOf(t) EXCEPT !.resp = R_Expired])
            /\ qrs' = [qrs EXCEPT ![qs[t]].active = FALSE]
       ELSE IF method[t] = "POST"
       THEN Goto(t, "scan_student") /\ UNCHANGED <<locals, qrs>>
       ELSE Finish(t, [ScanOf(t) EXCEPT !.resp = R_Form]) /\ UNCHANGED qrs

\* lines 460-465, 490: the expiry test; a GET renders the scan form
ScanExpiry(t) ==
    /\ pc[t] = "scan_expiry"
    /\ UNCHANGED <<now, db, dbLock>>
    /\ IF now > qrs[qs[t]].expires_at
       THEN Finish(t, [ScanOf(t) EXCEPT !.resp = R_Expired])
       ELSE IF method[t] = "POST"
       THEN Goto(t, "scan_student") /\ UNCHANGED locals
       ELSE Finish(t, [ScanOf(t) EXCEPT !.resp = R_Form])

\* lines 466-479: the roll number and the Student query
ScanFindStudent(t) ==
    /\ pc[t] = "scan_student"
    /\ UNCHANGED <<now, db, dbLock>>
    /\ LET found == FindStudents(roll[t], ClassSessions[qrs[qs[t]].class_session_id]) IN
       IF roll[t] = "" THEN Finish(t, [ScanOf(t) EXCEPT !.resp = R_NoRoll])
       ELSE IF found = {} THEN Finish(t, [ScanOf(t) EXCEPT !.resp = R_BadRoll])
       ELSE \E s \in found :
              /\ Goto(t, "scan_dup")
              /\ student' = [student EXCEPT ![t] = s.id]
              /\ UNCHANGED <<method, qs, roll, cid, upd, form, studentRow>>

\* ScanCheckDup, were the duplicate check left out
ScanCheckDup_Skip(t) ==
    /\ pc[t] = "scan_dup"
    /\ UNCHANGED <<now, db, dbLock>>
    /\ Goto(t, "scan_commit") /\ UNCHANGED locals

\* lines 481-483: the duplicate check
ScanCheckDup(t) ==
    /\ pc[t] = "scan_dup"
    /\ UNCHANGED <<now, db, dbLock>>
    /\ IF FindAttendance(student[t], qrs[qs[t]].class_session_id) # {}
       THEN Finish(t, [ScanOf(t) EXCEPT !.resp = R_Already])
       ELSE Goto(t, "scan_commit") /\ UNCHANGED locals

\* ScanCommit, were the row to take the id of the QRSession row for that of
\* the class session
ScanCommit_QsId(t) ==
    /\ pc[t] = "scan_commit"
    /\ dbLock = 0
    /\ attendance' = attendance \cup
         {[id |-> NextAttendanceId,
           student_id |-> student[t],
           class_session_id |-> qs[t],
           timestamp |-> now,
           status |-> "Present"]}
    /\ Finish(t, [ScanOf(t) EXCEPT !.resp = R_Success])
    /\ UNCHANGED <<now, qrs, students, dbLock>>

\* ScanCommit, were a check-in to use the token up
ScanCommit_SingleUse(t) ==
    /\ pc[t] = "scan_commit"
    /\ dbLock = 0
    /\ attendance' = attendance \cup
         {[id |-> NextAttendanceId,
           student_id |-> student[t],
           class_session_id |-> qrs[qs[t]].class_session_id,
           timestamp |-> now,
           status |-> "Present"]}
    /\ qrs' = [qrs EXCEPT ![qs[t]].active = FALSE]
    /\ Finish(t, [ScanOf(t) EXCEPT !.resp = R_Success])
    /\ UNCHANGED <<now, students, dbLock>>

\* lines 485-488: INSERT and COMMIT of the Attendance row; the transaction
\* waits for the write lock
ScanCommit(t) ==
    /\ pc[t] = "scan_commit"
    /\ dbLock = 0
    /\ attendance' = attendance \cup
         {[id |-> NextAttendanceId,
           student_id |-> student[t],
           class_session_id |-> qrs[qs[t]].class_session_id,
           timestamp |-> now,
           status |-> "Present"]}
    /\ Finish(t, [ScanOf(t) EXCEPT !.resp = R_Success])
    /\ UNCHANGED <<now, qrs, students, dbLock>>

\* ------------------------------------------------------------ login, logout

\* the request of browser b is answered at once; its thread stays free
Answer(t, o) ==
    /\ pc[t] = "idle"
    /\ out' = o
    /\ UNCHANGED <<now, db, dbLock, pc, locals>>

\* login, were the user looked up among the admins and the teachers alike
login_AnyTable(t, b, login_type, username, password) ==
    LET user == IF login_type \in {"admin", "teacher"}
                THEN {u \in Admins \cup Teachers : u.username = username}
                ELSE {}
        o == [NoOut EXCEPT !.browser = b, !.role = login_type,
                           !.username = username, !.password = password]
    IN
    IF \E u \in user : check_password_hash(u.password_hash, password)
    THEN /\ \E u \in user :
              session' = [session EXCEPT ![b] = [role |-> login_type, user_id |-> u.id]]
         /\ Answer(t, [o EXCEPT !.resp = R_Dashboard])
    ELSE /\ UNCHANGED session
         /\ Answer(t, [o EXCEPT !.resp = R_LoginPage])

\* lines 141-160: POST /, the login form
login(t, b, login_type, username, password) ==
    LET user == IF login_type = "admin"
                THEN {u \in Admins : u.username = username}
                ELSE IF login_type = "teacher"
                THEN {u \in Teachers : u.username = username}
                ELSE {}
        o == [NoOut EXCEPT !.browser = b, !.role = login_type,
                           !.username = username, !.password = password]
    IN
    IF \E u \in user : check_password_hash(u.password_hash, password)
    THEN /\ \E u \in user :
              session' = [session EXCEPT ![b] = [role |-> login_type, user_id |-> u.id]]
         /\ Answer(t, [o EXCEPT !.resp = R_Dashboard])
    ELSE /\ UNCHANGED session
         /\ Answer(t, [o EXCEPT !.resp = R_LoginPage])

\* lines 163-166: session.clear()
logout(t, b) ==
    /\ session' = [session EXCEPT ![b] = NoSession]
    /\ Answer(t, [NoOut EXCEPT !.browser = b, !.resp = R_Login])

\* -------------------------------------------------------- admin_add_student

\* next INTEGER PRIMARY KEY of the Student table
NextStudentId ==
    IF students = {} THEN 1
    ELSE 1 + CHOOSE m \in {s.id : s \in students} :
                 \A s \in students : s.id <= m

\* Student.query.filter_by(roll_number=r)
FindRoll(r) == {s \in students : s.roll_number = r}

\* the UNIQUE constraint of Student.roll_number lets row id take roll number r
RollFree(id, r) == \A s \in students : s.roll_number = r => s.id = id

\* lines 190-205, 220: the login gate, the form and the query for the roll number
AddCheck(t, role, m, r, b, c) ==
    /\ pc[t] = "idle"
    /\ UNCHANGED <<now, db, dbLock>>
    /\ IF ~login_required(role, "admin")
       THEN Finish(t, [NoOut EXCEPT !.role = role, !.resp = R_Login])
       ELSE IF m # "POST"
       THEN Finish(t, [NoOut EXCEPT !.role = role, !.resp = R_AddForm])
       ELSE IF FindRoll(r) # {}
       THEN Finish(t, [NoOut EXCEPT !.role = role, !.roll = r, !.resp = R_RollExists])
       ELSE /\ Goto(t, "add_commit")
            /\ roll' = [roll EXCEPT ![t] = r]
            /\ form' = [form EXCEPT ![t] = [batch |-> b, course |-> c]]
            /\ UNCHANGED <<method, qs, student, cid, upd, studentRow>>

\* AddCommit, were Student.roll_number not declared unique
AddCommit_NoUnique(t) ==
    /\ pc[t] = "add_commit"
    /\ dbLock = 0
    /\ UNCHANGED <<now, qrs, attendance, dbLock>>
    /\ students' = students \cup
           {[id |-> NextStudentId, roll_number |-> roll[t],
             batch |-> form[t].batch, course |-> form[t].course]}
    /\ Finish(t, [NoOut EXCEPT !.role = "admin", !.roll = roll[t],
                               !.student = NextStudentId, !.resp = R_Added])

\* lines 207-218: INSERT and COMMIT of the Student row; the transaction waits
\* for the write lock; the UNIQUE constraint fails the INSERT of a roll number
\* that a row has (IntegrityError, a 500 response)
AddCommit(t) ==
    /\ pc[t] = "add_commit"
    /\ dbLock = 0
    /\ UNCHANGED <<now, qrs, attendance, dbLock>>
    /\ IF ~RollFree(0, roll[t])
       THEN /\ UNCHANGED students
            /\ Finish(t, [NoOut EXCEPT !.role = "admin", !.roll = roll[t], !.resp = R_500])
       ELSE /\ students' = students \cup
                   {[id |-> NextStudentId, roll_number |-> roll[t],
                     batch |-> form[t].batch, course |-> form[t].course]}
            /\ Finish(t, [NoOut EXCEPT !.role = "admin", !.roll = roll[t],
                                       !.student = NextStudentId, !.resp = R_Added])

\* ------------------------------------------------------- admin_edit_student

\* Student.query.get(sid): the set of the row, empty for None
GetStudent(sid) == {s \in students : s.id = sid}

\* lines 231-236: the login gate and Student.query.get_or_404(sid)
EditGet(t, role, sid) ==
    /\ pc[t] = "idle"
    /\ UNCHANGED <<now, db, dbLock>>
    /\ IF ~login_required(role, "admin")
       THEN Finish(t, [NoOut EXCEPT !.role = role, !.resp = R_Login])
       ELSE IF GetStudent(sid) = {}
       THEN Finish(t, [NoOut EXCEPT !.role = role, !.student = sid, !.resp = R_404])
       ELSE \E s \in GetStudent(sid) :
              /\ Goto(t, "edit_check")
              /\ studentRow' = [studentRow EXCEPT ![t] = s]
              /\ UNCHANGED <<method, qs, roll, student, cid, upd, form>>

\* lines 238-250, 256: the form; a roll number that differs from the loaded
\* one is looked up
EditCheck(t, m, r, b, c) ==
    /\ pc[t] = "edit_check"
    /\ UNCHANGED <<now, db, dbLock>>
    /\ LET o == [NoOut EXCEPT !.role = "admin", !.student = studentRow[t].id] IN
       IF m # "POST" THEN Finish(t, [o EXCEPT !.resp = R_EditForm])
       ELSE IF r # studentRow[t].roll_number /\ FindRoll(r) # {}
       THEN Finish(t, [o EXCEPT !.roll = r, !.resp = R_RollTaken])
       ELSE /\ Goto(t, "edit_commit")
            /\ roll' = [roll EXCEPT ![t] = r]
            /\ form' = [form EXCEPT ![t] = [batch |-> b, course |-> c]]
            /\ UNCHANGED <<method, qs, student, cid, upd, studentRow>>

\* the row cur after the UPDATE that sets the attributes whose form value
\* differs from the loaded row old
Updated(cur, old, r, f) ==
    [id |-> cur.id,
     roll_number |-> IF r # old.roll_number THEN r ELSE cur.roll_number,
     batch |-> IF f.batch # old.batch THEN f.batch ELSE cur.batch,
     course |-> IF f.course # old.course THEN f.course ELSE cur.course]

\* the form changes an attribute of the loaded row old
Dirty(old, r, f) ==
    r # old.roll_number \/ f.batch # old.batch \/ f.course # old.course

\* line 252: UPDATE of the changed attributes and COMMIT; the transaction
\* waits for the write lock; no UPDATE is sent when nothing changed; an UPDATE
\* that matches no row (StaleDataError) or breaks the UNIQUE constraint
\* (IntegrityError) is a 500 response
EditCommit(t) ==
    /\ pc[t] = "edit_commit"
    /\ dbLock = 0
    /\ UNCHANGED <<now, qrs, attendance, dbLock>>
    /\ LET old == studentRow[t]
           o == [NoOut EXCEPT !.role = "admin", !.student = old.id, !.roll = roll[t]]
       IN
       IF ~Dirty(old, roll[t], form[t])
       THEN UNCHANGED students /\ Finish(t, [o EXCEPT !.resp = R_Updated])
       ELSE IF GetStudent(old.id) = {}
       THEN UNCHANGED students /\ Finish(t, [o EXCEPT !.resp = R_500])
       ELSE IF roll[t] # old.roll_number /\ ~RollFree(old.id, roll[t])
       THEN UNCHANGED students /\ Finish(t, [o EXCEPT !.resp = R_500])
       ELSE /\ students' = {IF s.id = old.id THEN Updated(s, old, roll[t], form[t]) ELSE s :
                              s \in students}
            /\ Finish(t, [o EXCEPT !.resp = R_Updated])

\* ----------------------------------------------------- admin_delete_student

\* lines 259-264: the login gate and Student.query.get_or_404(sid)
DelGet(t, role, sid) ==
    /\ pc[t] = "idle"
    /\ UNCHANGED <<now, db, dbLock>>
    /\ IF ~login_required(role, "admin")
       THEN Finish(t, [NoOut EXCEPT !.role = role, !.resp = R_Login])
       ELSE IF GetStudent(sid) = {}
       THEN Finish(t, [NoOut EXCEPT !.role = role, !.student = sid, !.resp = R_404])
       ELSE \E s \in GetStudent(sid) :
              /\ Goto(t, "del_attendance")
              /\ studentRow' = [studentRow EXCEPT ![t] = s]
              /\ UNCHANGED <<method, qs, roll, student, cid, upd, form>>

\* line 266: the DELETE of the student's Attendance rows; it opens the write
\* transaction, which waits for the write lock
DelAttendance(t) ==
    /\ pc[t] = "del_attendance"
    /\ dbLock = 0
    /\ dbLock' = t
    /\ Goto(t, "del_commit")
    /\ UNCHANGED <<now, db, locals>>

\* lines 266-270: the DELETE of the Student row and the COMMIT of both DELETEs
DelCommit(t) ==
    /\ pc[t] = "del_commit"
    /\ attendance' = {a \in attendance : a.student_id # studentRow[t].id}
    /\ students' = {s \in students : s.id # studentRow[t].id}
    /\ dbLock' = 0
    /\ Finish(t, [NoOut EXCEPT !.role = "admin", !.student = studentRow[t].id,
                               !.resp = R_Deleted])
    /\ UNCHANGED <<now, qrs>>

\* ------------------------------------------------------------------ clock

\* the clock moves on to a later instant
Tick ==
    /\ \E x \in Instants : x > now /\ now' = x
    /\ out' = NoOut
    /\ UNCHANGED <<db, dbLock, pc, locals, session>>

\* ---------------------------------------------------------- specifications

\* room for one more QRSession row, counting the ones being issued
TokenRoom == Len(qrs) + InFlight({"gen_update", "gen_commit"}) < MaxTokens

\* room for one more Attendance row, counting the check-ins under way
AttendanceRoom ==
    Cardinality(attendance)
      + InFlight({"scan_expiry", "scan_student", "scan_dup", "scan_commit"}) < MaxAtt

\* student_scan goes on past line 458, so the roll number of the form can be
\* read; the form of a request answered before is taken to be empty
RollIsRead(sid, token) ==
    /\ sid # "" /\ token # ""
    /\ GetQRSession(sid) # 0
    /\ qrs[GetQRSession(sid)].token = token
    /\ qrs[GetQRSession(sid)].active

\* one step of the request thread t
Step(t) ==
    \/ \E role \in Roles, c \in CidParams : TokenRoom /\ GenStart(t, role, c)
    \/ GenUpdate(t)
    \/ \E secret \in Secrets : GenCommit(t, secret)
    \/ \E sid \in SidParams, token \in TokenParams :
          ScanGetQs(t, "GET", sid, token, "")
    \/ \E sid \in SidParams, token \in TokenParams, r \in RollParams :
          /\ AttendanceRoom
          /\ r # "" => RollIsRead(sid, token)
          /\ ScanGetQs(t, "POST", sid, token, r)
    \/ ScanExpiry(t)
    \/ ScanFindStudent(t)
    \/ ScanCheckDup(t)
    \/ ScanCommit(t)

\* requests served concurrently by the server's threads
Next == (\E t \in Threads : Step(t)) \/ Tick

Spec == Init /\ [][Next]_vars

\* requests served one at a time
NextSeq == Step(1) \/ Tick

SpecSeq == Init /\ [][NextSeq]_vars

\* one step of thread t serving the login, the logout and generate_qr for the
\* browsers' sessions
LoginStep(t) ==
    \/ \E b \in Browsers, lt \in LoginTypes, u \in Usernames, p \in Passwords :
          login(t, b, lt, u, p)
    \/ \E b \in Browsers : logout(t, b)
    \/ \E b \in Browsers, c \in CidParams :
          TokenRoom /\ GenStart(t, session[b].role, c)
    \/ GenUpdate(t)
    \/ GenCommit(t, "s1")

NextLogin == \E t \in Threads : LoginStep(t)

SpecLogin == Init /\ [][NextLogin]_vars

\* one step of thread t serving add_student and edit_student
RollStep(t) ==
    \/ \E role \in Roles, m \in {"GET", "POST"}, r \in FormRolls,
          b \in FormBatches, c \in FormCourses : AddCheck(t, role, m, r, b, c)
    \/ AddCommit(t)
    \/ \E role \in Roles, sid \in StudentIdParams : EditGet(t, role, sid)
    \/ \E m \in {"GET", "POST"}, r \in FormRolls, b \in FormBatches, c \in FormCourses :
          EditCheck(t, m, r, b, c)
    \/ EditCommit(t)

NextRoll == \E t \in Threads : RollStep(t)

SpecRoll == Init /\ [][NextRoll]_vars

\* one step of thread t serving delete_student, an admin's generate_qr and
\* the check-ins
DeleteStep(t) ==
    \/ \E role \in Roles, sid \in StudentIdParams : DelGet(t, role, sid)
    \/ DelAttendance(t)
    \/ DelCommit(t)
    \/ \E c \in ClassIds : TokenRoom /\ GenStart(t, "admin", c)
    \/ GenUpdate(t)
    \/ \E secret \in Secrets : GenCommit(t, secret)
    \/ \E sid \in SidParams, token \in TokenParams, r \in RollParams :
          /\ AttendanceRoom
          /\ RollIsRead(sid, token)
          /\ ScanGetQs(t, "POST", sid, token, r)
    \/ ScanExpiry(t)
    \/ ScanFindStudent(t)
    \/ ScanCheckDup(t)
    \/ ScanCommit(t)

NextDelete == \E t \in Threads : DeleteStep(t)

SpecDelete == Init /\ [][NextDelete]_vars

\* requests served one at a time: an admin's generate_qr, the check-ins, and
\* an admin adding a student of the cohort of class session 1
NextCohort ==
    \/ \E c \in CidParams : TokenRoom /\ GenStart(1, "admin", c)
    \/ GenUpdate(1)
    \/ GenCommit(1, "s1")
    \/ \E sid \in SidParams, token \in TokenParams :
          ScanGetQs(1, "GET", sid, token, "")
    \/ \E sid \in SidParams, token \in TokenParams, r \in RollParams :
          /\ AttendanceRoom
          /\ r # "" => RollIsRead(sid, token)
          /\ ScanGetQs(1, "POST", sid, token, r)
    \/ ScanExpiry(1)
    \/ ScanFindStudent(1)
    \/ ScanCheckDup(1)
    \/ ScanCommit(1)
    \/ AddCheck(1, "admin", "POST", "r9", "b1", "c1")
    \/ AddCommit(1)
    \/ Tick

SpecCohort == Init /\ [][NextCohort]_vars

\* ------------------------------------------------------------------ claims

\* the active QRSession rows of class session c
ActiveRows(c) == {i \in DOMAIN qrs : qrs[i].class_session_id = c /\ qrs[i].active}

\* the last QRSession row issued for its class session
IsLast(i) == \A j \in DOMAIN qrs : j > i => qrs[j].class_session_id # qrs[i].class_session_id

\* the row the answered scan request names by its sid, 0 if there is none
OutQs == GetQRSession(out.sid)

\* the answered scan request names a row and supplies its secret
OutMatches == OutQs # 0 /\ qrs[OutQs].token = out.token

\* C1: in every reachable state, under every interleaving of concurrent
\* generate_qr requests, at most one QRSession row of a class session is active.
C1_AtMostOneActive ==
    \A c \in ClassIds : Cardinality(ActiveRows(c)) <= 1

\* a generate_qr request has just committed a row for a class session while a
\* second request for the same class session, begun before, waits to UPDATE
C1_Witness ==
    /\ out.resp = R_QR
    /\ \E t \in Threads : pc[t] = "gen_update" /\ cid[t] = out.cid
    /\ ActiveRows(out.cid) # {}

\* C2: requests served one at a time: of the rows issued for a class session
\* exactly the last one is active; a scan that names an earlier row with its
\* right secret is refused as invalid or inactive, also while the row is
\* unexpired; a scan that names the last row with its right secret while it is
\* unexpired passes the token checks (a GET gets the scan form).
C2_LastIssuedOnly ==
    /\ \A i \in DOMAIN qrs : qrs[i].active <=> IsLast(i)
    /\ (out.method # "" /\ OutMatches /\ ~IsLast(OutQs)) => out.resp = R_Invalid
    /\ (out.method # "" /\ OutMatches /\ IsLast(OutQs) /\ now <= qrs[OutQs].expires_at)
         => /\ out.resp \notin {R_BadParams, R_Invalid, R_Expired}
            /\ out.method = "GET" => out.resp = R_Form

\* a second row was issued for a class session and a scan of the first one,
\* unexpired and with its right secret, has just been refused
C2_Witness ==
    /\ Len(qrs) >= 2
    /\ \A i \in DOMAIN qrs : qrs[i].class_session_id = qrs[1].class_session_id
    /\ OutMatches /\ OutQs < Len(qrs) /\ now <= qrs[OutQs].expires_at
    /\ out.resp = R_Invalid

\* C3: in every reachable state there is at most one Attendance row per
\* (student_id, class_session_id), under every interleaving of concurrent
\* POST /scan requests.
C3_OneRecordPerPair ==
    \A a, b \in attendance :
        (a.student_id = b.student_id /\ a.class_session_id = b.class_session_id)
          => a = b

\* the class session of the row the answered scan request names
OutClass == qrs[OutQs].class_session_id

\* the Attendance rows of student s for class session c, in table att
RecordsOf(att, s, c) == {a \in att : a.student_id = s /\ a.class_session_id = c}

\* the row the answered scan request names is one its token checks let pass
OutValid == OutMatches /\ qrs[OutQs].active /\ now <= qrs[OutQs].expires_at

\* the responses with which the token checks refuse a scan request
Refusals == {R_BadParams, R_Invalid, R_Expired}

\* C4: requests served one at a time: a check-in answered with success has
\* created the one Attendance row of its (student, class session), which had
\* none before; a check-in for a pair that has its row is answered "already
\* marked" and creates nothing, the pair keeping exactly one row.
C4_Step ==
    /\ out'.resp = R_Success =>
         /\ RecordsOf(attendance, out'.student, OutClass') = {}
         /\ Cardinality(RecordsOf(attendance', out'.student, OutClass')) = 1
         /\ Cardinality(attendance') = Cardinality(attendance) + 1
    /\ out'.resp = R_Already =>
         /\ attendance' = attendance
         /\ Cardinality(RecordsOf(attendance, out'.student, OutClass')) = 1
    /\ \A t \in Threads :
         (pc[t] = "scan_dup" /\ pc'[t] # "scan_dup") =>
            (out'.resp = R_Already
               <=> RecordsOf(attendance, student[t], qrs[qs[t]].class_session_id) # {})

C4_RepeatedCheckIn == [][C4_Step]_vars

\* a second check-in of a student for a class session has just been answered
\* "already marked", the pair having its one row
C4_Witness ==
    /\ out.resp = R_Already
    /\ Cardinality(RecordsOf(attendance, out.student, OutClass)) = 1

\* C5: requests served one at a time: a GET /scan gets the scan form iff a row
\* has the given id, the supplied secret equals the stored one, the row is
\* active and now <= expires_at; a POST /scan is refused by the token checks
\* only when these do not all hold, and goes on only for a matching active row.
C5_ValidateIff ==
    /\ out.method = "GET" => (out.resp = R_Form <=> OutValid)
    /\ (out.method = "POST" /\ out.resp \in Refusals) => ~OutValid
    /\ (out.method = "POST" /\ out.resp \notin Refusals)
         => (OutMatches /\ qrs[OutQs].active)

\* a GET /scan at the very instant expires_at has just got the scan form
C5_Witness ==
    /\ out.method = "GET" /\ out.resp = R_Form
    /\ now = qrs[OutQs].expires_at

\* a student with roll number r exists and is not of the cohort of class session c
Ineligible(r, c) ==
    \E s \in students :
        /\ s.roll_number = r
        /\ s.batch # ClassSessions[c].batch \/ s.course # ClassSessions[c].course

\* C6 as stated: a check-in of a student outside the cohort of the token's
\* class session is answered "invalid roll number for this session" whatever
\* the state of the token.
C6_AlwaysNotEligible ==
    (out.method = "POST" /\ OutQs # 0 /\ Ineligible(out.roll, OutClass))
      => out.resp = R_BadRoll

\* C6 amended: a check-in of a student outside the cohort of the token's class
\* session is never recorded: past the token checks it is answered "invalid
\* roll number for this session"; on a row that has expired it is answered
\* "QR expired"; and every Attendance row is of a student of the cohort.
C6_NeverRecorded ==
    /\ (out.method = "POST" /\ OutQs # 0 /\ Ineligible(out.roll, OutClass))
         => /\ out.resp \in {R_Expired, R_BadRoll}
            /\ out.resp = R_Expired => now > qrs[OutQs].expires_at
    /\ \A a \in attendance : \E s \in students :
         /\ s.id = a.student_id
         /\ s.batch = ClassSessions[a.class_session_id].batch
         /\ s.course = ClassSessions[a.class_session_id].course

\* a check-in with a token that passes its checks, by a student outside the
\* cohort, has just been answered "invalid roll number for this session"
C6_Witness ==
    /\ out.method = "POST" /\ out.resp = R_BadRoll
    /\ OutValid /\ Ineligible(out.roll, OutClass)

\* C7: requests served one at a time: a row issued at T0 has expires_at = T0 + 30;
\* a GET /scan of an active row with its right secret gets the scan form at
\* every instant up to and including T0 + 30 and "QR expired" at every later one.
C7_ThirtySeconds ==
    /\ \A i \in DOMAIN qrs : qrs[i].expires_at = qrs[i].created_at + 30
    /\ out.resp = R_QR =>
         /\ qrs[Len(qrs)].created_at = now
         /\ qrs[Len(qrs)].active
    /\ (out.method = "GET" /\ OutMatches /\ qrs[OutQs].active) =>
         /\ now <= qrs[OutQs].created_at + 30 => out.resp = R_Form
         /\ now > qrs[OutQs].created_at + 30 => out.resp = R_Expired

\* a GET /scan 31 seconds after the issue of a row that is still active has
\* just been answered "QR expired"
C7_Witness ==
    /\ out.method = "GET" /\ out.resp = R_Expired
    /\ qrs[OutQs].active
    /\ now = qrs[OutQs].created_at + 31

\* C8: no step brings a row back: every row stays, keeps its secret and its
\* expires_at, never goes from inactive to active, the clock never goes back,
\* and a row that fails the token checks (inactive or expired) fails them
\* after every step.
C8_Step ==
    /\ now' >= now
    /\ \A i \in DOMAIN qrs :
         /\ i \in DOMAIN qrs'
         /\ qrs'[i].token = qrs[i].token
         /\ qrs'[i].expires_at = qrs[i].expires_at
         /\ ~qrs[i].active => ~qrs'[i].active
         /\ ~(qrs[i].active /\ now <= qrs[i].expires_at)
              => ~(qrs'[i].active /\ now' <= qrs'[i].expires_at)

C8_Terminal == [][C8_Step]_vars

\* a row both superseded by a later row of its class session and expired has
\* just been refused to a scan that supplied its right secret
C8_Witness ==
    /\ out.resp = R_Invalid /\ OutMatches
    /\ ~qrs[OutQs].active /\ now > qrs[OutQs].expires_at
    /\ \E j \in DOMAIN qrs : j > OutQs /\ qrs[j].class_session_id = OutClass

\* C9: no step of a GET /scan changes a QRSession, Student or Attendance row
\* (the class sessions are fixed), so the token it was shown is not used up.
C9_Step ==
    (\/ out'.method = "GET"
     \/ \E t \in Threads :
          pc[t] = "idle" /\ pc'[t] = "scan_expiry" /\ method'[t] = "GET")
      => /\ qrs' = qrs
         /\ attendance' = attendance
         /\ students' = students

C9_ReadOnly == [][C9_Step]_vars

\* a GET /scan has just got the scan form for a row that still passes the
\* token checks, while a check-in with the same row is under way
C9_Witness ==
    /\ out.method = "GET" /\ out.resp = R_Form /\ OutValid
    /\ \E t \in Threads : pc[t] = "scan_student" /\ qs[t] = OutQs

\* why the token checks refuse the answered scan request, in their order
TokenCause ==
    IF out.sid = "" \/ out.token = "" THEN "MissingParams"
    ELSE IF OutQs = 0 THEN "NotFound"
    ELSE IF qrs[OutQs].token # out.token THEN "SecretMismatch"
    ELSE IF ~qrs[OutQs].active THEN "Inactive"
    ELSE IF now > qrs[OutQs].expires_at THEN "Expired"
    ELSE "None"

\* C10 as stated: each cause of refusal has a response of its own, so two
\* scan requests refused with the same response were refused for the same cause.
C10_SameResponse ==
    (out.resp \in Refusals /\ out'.resp = out.resp) => TokenCause' = TokenCause

NoneInCohort ==
    ~\E s \in students :
        /\ s.roll_number = out.roll
        /\ s.batch = ClassSessions[OutClass].batch
        /\ s.course = ClassSessions[OutClass].course

C11_Step == attendance \subseteq attendance'

C11_OnlyGrows == [][C11_Step]_vars

\* a generate_qr has just issued a row for a class session that has the
\* Attendance rows of two students
C11_Witness ==
    /\ out.resp = R_QR
    /\ Cardinality({a \in attendance : a.class_session_id = out.cid}) = 2

\* C12: under every interleaving of check-ins, generate_qr requests and the
\* clock, a check-in commits its Attendance row at a moment when the row of
\* the token it presented is active and unexpired.
C12_CommittedWhileValid ==
    out.resp = R_Success => (qrs[OutQs].active /\ now <= qrs[OutQs].expires_at)

\* the students the submitted roll number of the answered check-in names
\* in the cohort of the token's class session, in table stus
OutStudents(o, stus, c) ==
    {s \in stus : /\ s.roll_number = o.roll
                  /\ s.batch = ClassSessions[c].batch
                  /\ s.course = ClassSessions[c].course}

\* C13: requests served one at a time: a check-in answered with success has
\* added exactly one Attendance row, of the student the submitted roll number
\* names, of the class session of the presented token's row, with status
\* "Present" and the timestamp now; every other Attendance row, every
\* QRSession row and every Student row is as before.
C13_Step ==
    out'.resp = R_Success =>
      /\ \E a \in attendance' :
           /\ a \notin attendance
           /\ attendance' = attendance \cup {a}
           /\ \A b \in attendance : b.id # a.id
           /\ \E s \in OutStudents(out', students, OutClass') : a.student_id = s.id
           /\ a.student_id = out'.student
           /\ a.class_session_id = OutClass'
           /\ a.status = "Present"
           /\ a.timestamp = now
      /\ qrs' = qrs
      /\ students' = students

C13_ExactlyOneRecord == [][C13_Step]_vars

\* the check-in of a second student of a class session has just succeeded
\* with the second row issued, the first student's row being in the table
C13_Witness ==
    /\ out.resp = R_Success /\ OutQs = 2
    /\ \E a \in attendance :
         a.student_id # out.student /\ a.class_session_id = OutClass

\* no two Student rows share a roll number, nor an id
UniqueRolls(stus) ==
    \A s1, s2 \in stus :
        (s1.roll_number = s2.roll_number \/ s1.id = s2.id) => s1 = s2

\* the responses that reject an add or an edit for its roll number
RollRejections == {R_RollExists, R_RollTaken, R_500}

\* C14: under every interleaving of add_student and edit_student requests no
\* two Student rows share a roll number; an add or edit that is rejected
\* leaves the Student rows unchanged; an add whose roll number a row has at
\* its INSERT, and an edit whose new roll number another row has at its
\* UPDATE, are rejected.
C14_Step ==
    /\ UniqueRolls(students) /\ UniqueRolls(students')
    /\ out'.resp \in RollRejections => students' = students
    /\ \A t \in Threads :
         /\ (pc[t] = "add_commit" /\ pc'[t] = "idle" /\ FindRoll(roll[t]) # {})
              => out'.resp = R_500
         /\ (pc[t] = "edit_commit" /\ pc'[t] = "idle"
                /\ roll[t] # studentRow[t].roll_number
                /\ \E s \in FindRoll(roll[t]) : s.id # studentRow[t].id)
              => (out'.resp = R_500 /\ students' = students)

C14_UniqueRollNumbers == [][C14_Step]_vars

\* an add of a roll number that passed the query has just been rejected at
\* its INSERT, a concurrent request having committed a row with that number
C14_Witness ==
    /\ out.resp = R_500 /\ out.roll = "r9"
    /\ \E s \in students : s.roll_number = "r9"

\* the positions of a check-in before its INSERT
ScanLabels == {"scan_expiry", "scan_student", "scan_dup"}

\* C15: requests served one at a time: a check-in that is not answered with
\* success, and every step of a check-in before its INSERT, leaves the
\* Attendance rows and every QRSession row unchanged.
C15_Step ==
    /\ (out'.method = "POST" /\ out'.resp # R_Success)
         => (attendance' = attendance /\ qrs' = qrs)
    /\ (\E t \in Threads : pc[t] \in ScanLabels \/ pc'[t] \in ScanLabels)
         => (attendance' = attendance /\ qrs' = qrs)

C15_FailuresChangeNothing == [][C15_Step]_vars

\* a check-in has just been answered "QR expired" for a row that is still
\* active, the class session having an Attendance row
C15_Witness ==
    /\ out.method = "POST" /\ out.resp = R_Expired
    /\ qrs[OutQs].active
    /\ \E a \in attendance : a.class_session_id = OutClass

\* C16: requests served one at a time: after a check-in answered with success
\* the row of the presented token is as before, still active; and a check-in
\* with a row that passes the token checks, by a student of the cohort who
\* has no Attendance row for the class session, is answered with success,
\* whoever checked in with that row before.
C16_Step ==
    /\ out'.resp = R_Success => (qrs'[OutQs'] = qrs[OutQs'] /\ qrs'[OutQs'].active)
    /\ (/\ out'.method = "POST" /\ OutValid'
        /\ \E s \in OutStudents(out', students, OutClass') :
              RecordsOf(attendance, s.id, OutClass') = {})
         => out'.resp = R_Success

C16_TokenNotConsumed == [][C16_Step]_vars

\* with the only row ever issued, a second student has just checked in with
\* success after another student of the class session
C16_Witness ==
    /\ Len(qrs) = 1
    /\ out.resp = R_Success
    /\ \E a \in attendance :
         a.student_id # out.student /\ a.class_session_id = OutClass

\* C17: requests served one at a time: a generate_qr answered with the QR page
\* has added exactly one row, of its class session, and left every row of
\* every other class session as it was; of the rows of its own class session
\* only the active flag may have changed; a generate_qr for a missing class
\* session, and every step that is not the COMMIT of a generate_qr, leaves
\* the QRSession rows unchanged.
C17_Step ==
    /\ out'.resp = R_QR =>
         /\ Len(qrs') = Len(qrs) + 1
         /\ qrs'[Len(qrs')].class_session_id = out'.cid
         /\ \A i \in DOMAIN qrs :
              /\ qrs[i].class_session_id # out'.cid => qrs'[i] = qrs[i]
              /\ qrs'[i] = [qrs[i] EXCEPT !.active = qrs'[i].active]
    /\ out'.resp # R_QR => qrs' = qrs
    /\ out'.resp = R_404 => out'.cid \notin ClassIds

C17_OnlyOwnSession == [][C17_Step]_vars

\* a generate_qr has just issued a row while the row of another class session
\* is still active
C17_Witness ==
    /\ out.resp = R_QR
    /\ \E i \in DOMAIN qrs : qrs[i].class_session_id # out.cid /\ qrs[i].active

\* C18: a generate_qr request of a browser session whose role is not "admin"
\* is sent to the login page and changes no QRSession row; a request goes on
\* to the UPDATE only for a session whose role is "admin"; the QRSession rows
\* change only at the COMMIT of such a request; a session's role becomes
\* "admin" only by a login of type admin whose username and password are
\* those of an Admin row.
C18_Step ==
    /\ (out'.resp = R_Login /\ out'.role # "")
         => (out'.role # "admin" /\ qrs' = qrs)
    /\ \A t \in Threads :
         (pc[t] = "idle" /\ pc'[t] = "gen_update")
           => \E b \in Browsers : session[b].role = "admin"
    /\ qrs' # qrs =>
         (out'.resp = R_QR /\ \E t \in Threads : pc[t] = "gen_commit" /\ pc'[t] = "idle")
    /\ \A b \in Browsers :
         (session'[b].role = "admin" /\ session[b].role # "admin") =>
            /\ out'.resp = R_Dashboard /\ out'.browser = b /\ out'.role = "admin"
            /\ \E a \in Admins :
                 /\ a.username = out'.username
                 /\ a.password_hash = generate_password_hash(out'.password)
                 /\ session'[b].user_id = a.id

C18_AdminGate == [][C18_Step]_vars

\* a generate_qr request of a session without a role has just been sent to the
\* login page; no session is an admin's any more, yet a row was issued before
C18_Witness ==
    /\ out.resp = R_Login /\ out.role = "none"
    /\ Len(qrs) >= 1
    /\ \A b \in Browsers : session[b].role # "admin"
    /\ \E b \in Browsers : session[b].role = "teacher"

\* C19: under every interleaving of delete_student requests and check-ins
\* every Attendance row is of a Student row that exists.
C19_RecordsHaveStudent ==
    \A a \in attendance : \E s \in students : s.id = a.student_id

====
